---- MODULE Spec2Model ----
(***************************************************************************)
(* TripTracker: the stop list of one trip as edited on the new-trip screen *)
(* (app/trips/new.tsx) and on the trip-detail screen (app/trips/[id].tsx   *)
(* with persistence, lib/trips.ts), together with the remote `stops`       *)
(* table the trip-detail handlers write to.                                *)
(*                                                                         *)
(* One screen is mounted per behaviour (`screen`).  Every async handler of *)
(* the trip-detail screen is split at its awaits: the step that starts it  *)
(* runs the code up to the first await and leaves a record in `calls`; one *)
(* step per awaited remote call resolves it (success or failure) and runs  *)
(* the code up to the next await or to the end of the handler.             *)
(***************************************************************************)
EXTENDS Integers, Sequences, FiniteSets, TLC

VARIABLES
  screen,   \* "new" (NewTripScreen) or "detail" (TripDetailScreen)
  stops,    \* the `stops` React state of the mounted screen
  db,       \* the remote `stops` table of the trip: row id -> row
  calls,    \* handler invocations suspended at an await, with their closures
  alert,    \* the message of the last Alert.alert shown, "" when none was
  seq,      \* ids handed out so far (Date.now / makeId / database UUIDs)
  ops,      \* handler invocations so far
  unit      \* the state of the unit exercised when it is not a stop list:
            \* the leg between two stops (mileage), a stored stop row
            \* (lateness), the stored rows of a trip (current stop), the
            \* expense form, the settings row of the trip number allocator

\* the variables the stop-list handlers of the two trip screens leave alone
unrelated == <<unit>>

vars == <<screen, stops, db, calls, alert, seq, ops, unit>>

\* a value that may be null is <<>> for null and <<v>> for the value v
Null == <<>>
Some(v) == <<v>>

----------------------------------------------------------------------------
(* Bounds *)

MaxStops == 4   \* addStop is not taken on a list already this long
MaxCalls == 2   \* handler invocations suspended at the same time
MaxOps   == 2   \* handler invocations in one behaviour

(* Program constants *)

FirstPlaceholder == 100  \* ids below are database UUIDs, ids from here on are
                         \* client placeholders (Date.now().toString())

STOP_TYPE_KEYS ==
  {"empty_start", "pickup", "stop", "terminal", "delivery", "reposition"}

\* The types the type pickers are exercised with.
DraftTypes == {"empty_start", "stop"}

Directions == {"up", "down"}

\* Trips the trip-detail screen is opened on (types in stop_order).
InitTrips ==
  { <<"empty_start", "pickup", "delivery", "reposition">>,
    <<"empty_start", "pickup", "delivery">>,
    <<"pickup", "delivery">> }

----------------------------------------------------------------------------
(* Helpers on sequences *)

Ids(list) == [i \in 1..Len(list) |-> list[i].id]

IdSet(list) == {list[i].id : i \in 1..Len(list)}

\* Array.prototype.findIndex(s => s.id === id): 0-based, -1 when absent
findIndex(list, id) ==
  IF \E i \in 1..Len(list) : list[i].id = id
    THEN (CHOOSE i \in 1..Len(list) :
            list[i].id = id /\ \A j \in 1..(i-1) : list[j].id # id) - 1
    ELSE -1

\* Array.prototype.filter(s => s.id !== id)
filterOut(list, id) == SelectSeq(list, LAMBDA s : s.id # id)

\* [...list] then splice(at, 0, item), at 0-based and clamped as splice does
splice(list, at, item) ==
  LET a == IF at > Len(list) THEN Len(list) ELSE IF at < 0 THEN 0 ELSE at
  IN  SubSeq(list, 1, a) \o <<item>> \o SubSeq(list, a + 1, Len(list))

\* swap of the 0-based positions i and j
swap(list, i, j) ==
  [k \in 1..Len(list) |->
     IF k = i + 1 THEN list[j + 1] ELSE IF k = j + 1 THEN list[i + 1] ELSE list[k]]

RemoveAt(s, k) == SubSeq(s, 1, k - 1) \o SubSeq(s, k + 1, Len(s))

----------------------------------------------------------------------------
(* lib/trips.ts: conversions and the id test of saveStop *)

isValidUuid(id) == id < FirstPlaceholder

NewUIStop(id, type) == [id |-> id, type |-> type, isCompleted |-> FALSE]

dbStopToUIStop(id, row) ==
  [id |-> id, type |-> row.type, isCompleted |-> (row.status = "complete")]

uiStopToDBStop(uiStop, stopOrder) ==
  [stop_order |-> stopOrder,
   type       |-> uiStop.type,
   status     |-> IF uiStop.isCompleted THEN "complete" ELSE "pending"]

\* fetchTripStops on a table whose stop_order values are distinct
fetchTripStops(table) ==
  LET n == Cardinality(DOMAIN table)
      rowAt(k) == CHOOSE id \in DOMAIN table : table[id].stop_order = k - 1
  IN  [k \in 1..n |-> dbStopToUIStop(rowAt(k), table[rowAt(k)])]

----------------------------------------------------------------------------
(* moveStop: the pure part (index and direction to the resulting list) *)

targetIndex(index, direction) == IF direction = "up" THEN index - 1 ELSE index + 1

\* app/trips/new.tsx moveStop
NewTripMoveStop(list, index, direction) ==
  LET target == targetIndex(index, direction)
  IN  IF target < 0 \/ target >= Len(list) THEN list
      ELSE swap(list, index, target)

\* MoveRejected without the test of the displaced neighbour's type
MoveRejected_noNeighbourTest(list, index, direction) ==
  LET target == targetIndex(index, direction)
  IN  \/ target < 0 \/ target >= Len(list)
      \/ list[index + 1].type \in {"empty_start", "reposition"}

\* TripDetailScreen moveStop: TRUE when one of the early returns is taken
MoveRejected(list, index, direction) ==
  LET target == targetIndex(index, direction)
  IN  \/ target < 0 \/ target >= Len(list)
      \/ list[index + 1].type \in {"empty_start", "reposition"}
      \/ direction = "up" /\ list[target + 1].type = "empty_start"
      \/ direction = "down" /\ list[target + 1].type = "reposition"

DetailMoveStop(list, index, direction) ==
  IF MoveRejected(list, index, direction) THEN list
  ELSE swap(list, index, targetIndex(index, direction))

----------------------------------------------------------------------------
(* Initial states *)

InitTable(types) ==
  [id \in 1..Len(types) |->
     [stop_order |-> id - 1, type |-> types[id], status |-> "pending"]]

NoTable == [id \in {} |-> 0]

\* useState initial value of NewTripScreen
NewTripInitialStops ==
  << NewUIStop(1, "empty_start"), NewUIStop(2, "pickup"), NewUIStop(3, "delivery") >>

Init ==
  /\ calls = <<>>
  /\ alert = ""
  /\ seq = 0
  /\ ops = 0
  /\ unit = Null
  /\ \/ /\ screen = "new"
        /\ stops = NewTripInitialStops
        /\ db = NoTable
     \/ /\ screen = "detail"
        /\ \E types \in InitTrips :
             /\ db = InitTable(types)
             /\ stops = fetchTripStops(InitTable(types))

----------------------------------------------------------------------------
(* lib/trips.ts: what each remote call does to the table when it succeeds *)

FirstUuid == 10   \* the database hands out row ids FirstUuid, FirstUuid+1, ...

\* saveStop looks the row up only when the id looks like a UUID
existing(table, uiStop) == isValidUuid(uiStop.id) /\ uiStop.id \in DOMAIN table

\* saveStop: update the existing row, or insert a row under a generated id
saveStop(table, uiStop, stopOrder, newId) ==
  IF existing(table, uiStop)
    THEN [table EXCEPT ![uiStop.id] = uiStopToDBStop(uiStop, stopOrder)]
    ELSE [id \in DOMAIN table \cup {newId} |->
            IF id = newId THEN uiStopToDBStop(uiStop, stopOrder) ELSE table[id]]

\* deleteStop: delete().eq("id", stopId)
deleteStop(table, stopId) == [id \in DOMAIN table \ {stopId} |-> table[id]]

\* reorderStops: one update({stop_order: index}).eq("id", stopId) per entry of
\* stopIds, all issued before any is awaited; the updates at the positions
\* in failed return an error and change nothing
reorderStops(table, stopIds, failed) ==
  LET hit(id) == {i \in (1..Len(stopIds)) \ failed : stopIds[i] = id}
  IN  [id \in DOMAIN table |->
         IF hit(id) = {} THEN table[id]
         ELSE [table[id] EXCEPT !.stop_order = (CHOOSE i \in hit(id) : TRUE) - 1]]

\* completeStop: update({status: "complete", completed_at: now}).eq("id", stopId)
completeStop(table, stopId) ==
  IF stopId \in DOMAIN table
    THEN [table EXCEPT ![stopId].status = "complete"] ELSE table

\* toggleComplete's inline update({status: "pending", completed_at: null})
uncompleteStop(table, stopId) ==
  IF stopId \in DOMAIN table
    THEN [table EXCEPT ![stopId].status = "pending"] ELSE table

----------------------------------------------------------------------------
(* A suspended handler invocation: the operation, the remote call it awaits *)
(* and the values its closure holds                                        *)

Call(op, pc, stopId, closure, newStops, updated, stopOrder) ==
  [op |-> op, pc |-> pc, stopId |-> stopId, stops |-> closure,
   newStops |-> newStops, updated |-> updated, stopOrder |-> stopOrder]

NoStop == NewUIStop(0, "stop")

\* Alert.alert(title, message)
Alert(msg) == alert' = msg

\* an alert is modal: it has been dismissed by the time a control is pressed
Dismissed == alert' = ""

\* prev.map(s => s.id === id ? stop : s)
replaceStop(list, id, stop) ==
  [i \in 1..Len(list) |-> IF list[i].id = id THEN stop ELSE list[i]]

\* prev.map(s => s.id === id ? { ...s, type: value } : s)
setType(list, id, value) ==
  [i \in 1..Len(list) |->
     IF list[i].id = id THEN [list[i] EXCEPT !.type = value] ELSE list[i]]

\* prev.map(s => s.id === id ? { ...s, isCompleted: !s.isCompleted } : s)
toggle(list, id) ==
  [i \in 1..Len(list) |->
     IF list[i].id = id
       THEN [list[i] EXCEPT !.isCompleted = ~list[i].isCompleted] ELSE list[i]]

CanStart == ops < MaxOps
CanSuspend == CanStart /\ Len(calls) < MaxCalls

----------------------------------------------------------------------------
(* NewTripScreen (app/trips/new.tsx): synchronous handlers *)

NewAddStop ==
  /\ screen = "new" /\ CanStart
  /\ Len(stops) < MaxStops
  /\ stops' = splice(stops, Len(stops) - 1, NewUIStop(FirstPlaceholder + seq, "stop"))
  /\ seq' = seq + 1
  /\ ops' = ops + 1
  /\ Dismissed
  /\ UNCHANGED <<screen, db, calls>>
  /\ UNCHANGED unrelated

NewRemoveStop(id) ==
  /\ screen = "new" /\ CanStart
  /\ IF Len(stops) <= 2
       THEN Alert("Minimum Stops") /\ UNCHANGED stops
       ELSE stops' = filterOut(stops, id) /\ Dismissed
  /\ ops' = ops + 1
  /\ UNCHANGED <<screen, db, calls, seq>>
  /\ UNCHANGED unrelated

\* updateStop(id, "type", value), the type picker
NewUpdateStop(id, value) ==
  /\ screen = "new" /\ CanStart
  /\ stops' = setType(stops, id, value)
  /\ ops' = ops + 1
  /\ Dismissed
  /\ UNCHANGED <<screen, db, calls, seq>>
  /\ UNCHANGED unrelated

NewMoveStop(index, direction) ==
  /\ screen = "new" /\ CanStart
  /\ stops' = NewTripMoveStop(stops, index, direction)
  /\ ops' = ops + 1
  /\ Dismissed
  /\ UNCHANGED <<screen, db, calls, seq>>
  /\ UNCHANGED unrelated

----------------------------------------------------------------------------
(* TripDetailScreen: moveStop *)

\* moveStop that calls reorderStops without the setStops(newStops) before it
moveStop_remoteFirst(index, direction) ==
  /\ screen = "detail" /\ CanSuspend
  /\ index \in 0..(Len(stops) - 1)
  /\ IF MoveRejected(stops, index, direction)
       THEN UNCHANGED calls
       ELSE calls' = Append(calls,
              Call("moveStop", "reorderStops", stops[index + 1].id,
                   stops, DetailMoveStop(stops, index, direction), NoStop, index))
  /\ ops' = ops + 1
  /\ Dismissed
  /\ UNCHANGED <<screen, stops, db, seq>>
  /\ UNCHANGED unrelated

\* up to the await: the early returns, then setStops(newStops) and the call
\* of reorderStops
moveStop(index, direction) ==
  /\ screen = "detail" /\ CanSuspend
  /\ index \in 0..(Len(stops) - 1)
  /\ IF MoveRejected(stops, index, direction)
       THEN UNCHANGED <<stops, calls>>
       ELSE LET newStops == DetailMoveStop(stops, index, direction)
            IN  /\ stops' = newStops
                /\ calls' = Append(calls,
                     Call("moveStop", "reorderStops", stops[index + 1].id,
                          stops, newStops, NoStop, index))
  /\ ops' = ops + 1
  /\ Dismissed
  /\ UNCHANGED <<screen, db, seq>>
  /\ UNCHANGED unrelated

\* moveStopReordered that puts back only the stops whose update failed
moveStopReordered_perRowRevert(k, failed) ==
  LET c == calls[k]
  IN  /\ c.op = "moveStop" /\ c.pc = "reorderStops"
      /\ db' = reorderStops(db, Ids(c.newStops), failed)
      /\ IF failed = {}
           THEN UNCHANGED <<stops, alert>>
           ELSE /\ stops' = [i \in 1..Len(stops) |->
                               IF i \in failed /\ i <= Len(c.stops)
                                 THEN c.stops[i] ELSE stops[i]]
                /\ Alert("Failed to reorder stops")
      /\ calls' = RemoveAt(calls, k)
      /\ UNCHANGED <<screen, seq, ops>>
      /\ UNCHANGED unrelated

\* reorderStops resolved: nothing more on success, setStops(stops) of the
\* closure and an alert when any update failed
moveStopReordered(k, failed) ==
  LET c == calls[k]
  IN  /\ c.op = "moveStop" /\ c.pc = "reorderStops"
      /\ db' = reorderStops(db, Ids(c.newStops), failed)
      /\ IF failed = {}
           THEN UNCHANGED <<stops, alert>>
           ELSE stops' = c.stops /\ Alert("Failed to reorder stops")
      /\ calls' = RemoveAt(calls, k)
      /\ UNCHANGED <<screen, seq, ops>>
      /\ UNCHANGED unrelated

----------------------------------------------------------------------------
(* TripDetailScreen: addStop *)

\* up to the first await: splice the new stop in, setStops(newStops), call
\* saveStop(tripId, newStop, afterIndex + 1)
addStop(afterIndex) ==
  /\ screen = "detail" /\ CanSuspend
  /\ Len(stops) < MaxStops
  /\ LET newStop  == NewUIStop(FirstPlaceholder + seq, "stop")
         newStops == splice(stops, afterIndex + 1, newStop)
     IN  /\ stops' = newStops
         /\ calls' = Append(calls,
              Call("addStop", "saveStop", newStop.id, stops, newStops,
                   newStop, afterIndex + 1))
  /\ seq' = seq + 1
  /\ ops' = ops + 1
  /\ Dismissed
  /\ UNCHANGED <<screen, db>>
  /\ UNCHANGED unrelated

\* saveStop resolved: on success go on to reorderStops, on failure revert
addStopSaved(k, ok) ==
  LET c == calls[k]
  IN  /\ c.op = "addStop" /\ c.pc = "saveStop"
      /\ IF ok
           THEN /\ db' = saveStop(db, c.updated, c.stopOrder, FirstUuid + seq)
                /\ seq' = seq + 1
                /\ calls' = [calls EXCEPT ![k].pc = "reorderStops"]
                /\ UNCHANGED <<stops, alert>>
           ELSE /\ stops' = c.stops
                /\ Alert("Failed to add stop")
                /\ calls' = RemoveAt(calls, k)
                /\ UNCHANGED <<db, seq>>
      /\ UNCHANGED <<screen, ops>>
      /\ UNCHANGED unrelated

\* reorderStops resolved
addStopReordered(k, failed) ==
  LET c == calls[k]
  IN  /\ c.op = "addStop" /\ c.pc = "reorderStops"
      /\ db' = reorderStops(db, Ids(c.newStops), failed)
      /\ IF failed = {}
           THEN UNCHANGED <<stops, alert>>
           ELSE stops' = c.stops /\ Alert("Failed to add stop")
      /\ calls' = RemoveAt(calls, k)
      /\ UNCHANGED <<screen, seq, ops>>
      /\ UNCHANGED unrelated

----------------------------------------------------------------------------
(* TripDetailScreen: handleDelete *)

\* handleDelete with the floor check off by one (stops.length < 2)
handleDelete_floorOffByOne(stopId) ==
  /\ screen = "detail" /\ CanSuspend
  /\ stopId \in IdSet(stops)
  /\ IF Len(stops) < 2
       THEN Alert("Cannot Delete") /\ UNCHANGED calls
       ELSE /\ calls' = Append(calls,
                 Call("handleDelete", "deleteStop", stopId, stops,
                      filterOut(stops, stopId), NoStop, 0))
            /\ Dismissed
  /\ ops' = ops + 1
  /\ UNCHANGED <<screen, stops, db, seq>>
  /\ UNCHANGED unrelated

\* up to the first await: the floor check, then the call of deleteStop
handleDelete(stopId) ==
  /\ screen = "detail" /\ CanSuspend
  /\ stopId \in IdSet(stops)
  /\ IF Len(stops) <= 2
       THEN Alert("Cannot Delete") /\ UNCHANGED calls
       ELSE /\ calls' = Append(calls,
                 Call("handleDelete", "deleteStop", stopId, stops,
                      filterOut(stops, stopId), NoStop, 0))
            /\ Dismissed
  /\ ops' = ops + 1
  /\ UNCHANGED <<screen, stops, db, seq>>
  /\ UNCHANGED unrelated

\* deleteStop resolved: on success newStops is computed from the closure and
\* reorderStops is called
handleDeleteDeleted(k, ok) ==
  LET c == calls[k]
  IN  /\ c.op = "handleDelete" /\ c.pc = "deleteStop"
      /\ IF ok
           THEN /\ db' = deleteStop(db, c.stopId)
                /\ calls' = [calls EXCEPT ![k].pc = "reorderStops"]
                /\ UNCHANGED alert
           ELSE /\ Alert("Failed to delete stop")
                /\ calls' = RemoveAt(calls, k)
                /\ UNCHANGED db
      /\ UNCHANGED <<screen, stops, seq, ops>>
      /\ UNCHANGED unrelated

\* reorderStops resolved: setStops(newStops) on success, an alert otherwise
handleDeleteReordered(k, failed) ==
  LET c == calls[k]
  IN  /\ c.op = "handleDelete" /\ c.pc = "reorderStops"
      /\ db' = reorderStops(db, Ids(c.newStops), failed)
      /\ IF failed = {}
           THEN stops' = c.newStops /\ UNCHANGED alert
           ELSE Alert("Failed to delete stop") /\ UNCHANGED stops
      /\ calls' = RemoveAt(calls, k)
      /\ UNCHANGED <<screen, seq, ops>>
      /\ UNCHANGED unrelated

----------------------------------------------------------------------------
(* TripDetailScreen: handleSave, handleComplete, toggleComplete *)

\* handleSave(updated), updated being the modal's draft of a listed stop with
\* the type the picker was left on: up to the await of saveStop
handleSave(stopId, type) ==
  /\ screen = "detail" /\ CanSuspend
  /\ stopId \in IdSet(stops)
  /\ LET updated   == [stops[findIndex(stops, stopId) + 1] EXCEPT !.type = type]
         stopOrder == findIndex(stops, updated.id)
     IN  IF stopOrder = -1
           THEN Alert("Failed to save stop") /\ UNCHANGED calls
           ELSE /\ calls' = Append(calls,
                     Call("handleSave", "saveStop", updated.id, stops, stops,
                          updated, stopOrder))
                /\ Dismissed
  /\ ops' = ops + 1
  /\ UNCHANGED <<screen, stops, db, seq>>
  /\ UNCHANGED unrelated

\* saveStop resolved: setStops(prev => prev.map(...)) on success
handleSaveSaved(k, ok) ==
  LET c == calls[k]
      insert == ~existing(db, c.updated)
  IN  /\ c.op = "handleSave" /\ c.pc = "saveStop"
      /\ IF ok
           THEN /\ db' = saveStop(db, c.updated, c.stopOrder, FirstUuid + seq)
                /\ seq' = IF insert THEN seq + 1 ELSE seq
                /\ stops' = replaceStop(stops, c.updated.id, c.updated)
                /\ UNCHANGED alert
           ELSE /\ Alert("Failed to save stop")
                /\ UNCHANGED <<db, seq, stops>>
      /\ calls' = RemoveAt(calls, k)
      /\ UNCHANGED <<screen, ops>>
      /\ UNCHANGED unrelated

\* handleComplete(stopId, completedStop) as the modal calls it (the Complete
\* button of a stop that is not completed, completedStop being the draft with
\* isCompleted set): up to the await of saveStop
handleComplete(stopId) ==
  /\ screen = "detail" /\ CanSuspend
  /\ stopId \in IdSet(stops)
  /\ ~stops[findIndex(stops, stopId) + 1].isCompleted
  /\ LET completedStop ==
           [stops[findIndex(stops, stopId) + 1] EXCEPT !.isCompleted = TRUE]
         stopOrder == findIndex(stops, stopId)
     IN  calls' = Append(calls,
           Call("handleComplete", "saveStop", stopId, stops, stops,
                completedStop, stopOrder))
  /\ ops' = ops + 1
  /\ Dismissed
  /\ UNCHANGED <<screen, stops, db, seq>>
  /\ UNCHANGED unrelated

\* saveStop resolved: on success the stop becomes
\* {...s, isCompleted: true, isCurrent: false, ...completedStop}
handleCompleteSaved(k, ok) ==
  LET c == calls[k]
      insert == ~existing(db, c.updated)
  IN  /\ c.op = "handleComplete" /\ c.pc = "saveStop"
      /\ IF ok
           THEN /\ db' = saveStop(db, c.updated, c.stopOrder, FirstUuid + seq)
                /\ seq' = IF insert THEN seq + 1 ELSE seq
                /\ stops' = replaceStop(stops, c.stopId, c.updated)
                /\ UNCHANGED alert
           ELSE /\ Alert("Failed to complete stop")
                /\ UNCHANGED <<db, seq, stops>>
      /\ calls' = RemoveAt(calls, k)
      /\ UNCHANGED <<screen, ops>>
      /\ UNCHANGED unrelated

\* toggleComplete(stopId): up to the first await; a completed stop goes the
\* uncomplete way (getTenantId, then the inline update), any other the
\* completeStop way
toggleComplete(stopId) ==
  /\ screen = "detail" /\ CanSuspend
  /\ stopId \in IdSet(stops)
  /\ LET stop == stops[findIndex(stops, stopId) + 1]
     IN  calls' = Append(calls,
           Call("toggleComplete",
                IF stop.isCompleted THEN "uncomplete" ELSE "completeStop",
                stopId, stops, stops, stop, 0))
  /\ ops' = ops + 1
  /\ Dismissed
  /\ UNCHANGED <<screen, stops, db, seq>>
  /\ UNCHANGED unrelated

\* completeStop resolved: it throws on an error
toggleCompleteCompleted(k, ok) ==
  LET c == calls[k]
  IN  /\ c.op = "toggleComplete" /\ c.pc = "completeStop"
      /\ IF ok
           THEN /\ db' = completeStop(db, c.stopId)
                /\ stops' = toggle(stops, c.stopId)
                /\ UNCHANGED alert
           ELSE /\ Alert("Failed to update stop")
                /\ UNCHANGED <<db, stops>>
      /\ calls' = RemoveAt(calls, k)
      /\ UNCHANGED <<screen, seq, ops>>
      /\ UNCHANGED unrelated

\* The outcomes of the uncomplete way: "ok"; "noTenant", getTenantId gave
\* null and the handler throws; "error", the update returned an error, which
\* the handler does not look at
UncompleteOutcomes == {"ok", "noTenant", "error"}

toggleCompleteUncompleted(k, outcome) ==
  LET c == calls[k]
  IN  /\ c.op = "toggleComplete" /\ c.pc = "uncomplete"
      /\ CASE outcome = "ok" ->
                /\ db' = uncompleteStop(db, c.stopId)
                /\ stops' = toggle(stops, c.stopId)
                /\ UNCHANGED alert
           [] outcome = "error" ->
                /\ stops' = toggle(stops, c.stopId)
                /\ UNCHANGED <<db, alert>>
           [] outcome = "noTenant" ->
                /\ Alert("Failed to update stop")
                /\ UNCHANGED <<db, stops>>
      /\ calls' = RemoveAt(calls, k)
      /\ UNCHANGED <<screen, seq, ops>>
      /\ UNCHANGED unrelated

----------------------------------------------------------------------------
(* Specification *)

StopIds == IdSet(stops)
Indices == 0..(Len(stops) - 1)
CallIx == 1..Len(calls)
\* The sets of updates of a reorderStops batch that can fail.  Any set can;
\* an update that matches no row, or writes the stop_order its row already
\* holds, leaves the table as it is whether it fails or not, so the failing
\* sets are listed up to that: every set of updates that would change a row,
\* and one set in which only an update that changes nothing fails.
Failures(k) ==
  LET stopIds  == Ids(calls[k].newStops)
      changing == {i \in 1..Len(stopIds) :
                     stopIds[i] \in DOMAIN db /\ db[stopIds[i]].stop_order # i - 1}
      others   == (1..Len(stopIds)) \ changing
  IN  (SUBSET changing) \cup
        (IF others = {} THEN {} ELSE {{CHOOSE i \in others : TRUE}})

Next ==
  \/ NewAddStop
  \/ \E id \in StopIds : NewRemoveStop(id)
  \/ \E id \in StopIds, value \in DraftTypes : NewUpdateStop(id, value)
  \/ \E index \in Indices, direction \in Directions : NewMoveStop(index, direction)
  \/ \E index \in Indices, direction \in Directions : moveStop(index, direction)
  \/ \E k \in CallIx : \E failed \in Failures(k) : moveStopReordered(k, failed)
  \/ \E afterIndex \in 0..(Len(stops) - 2) : addStop(afterIndex)
  \/ \E k \in CallIx, ok \in BOOLEAN : addStopSaved(k, ok)
  \/ \E k \in CallIx : \E failed \in Failures(k) : addStopReordered(k, failed)
  \/ \E id \in StopIds : handleDelete(id)
  \/ \E k \in CallIx, ok \in BOOLEAN : handleDeleteDeleted(k, ok)
  \/ \E k \in CallIx : \E failed \in Failures(k) : handleDeleteReordered(k, failed)
  \/ \E id \in StopIds, type \in DraftTypes : handleSave(id, type)
  \/ \E k \in CallIx, ok \in BOOLEAN : handleSaveSaved(k, ok)
  \/ \E id \in StopIds : handleComplete(id)
  \/ \E k \in CallIx, ok \in BOOLEAN : handleCompleteSaved(k, ok)
  \/ \E id \in StopIds : toggleComplete(id)
  \/ \E k \in CallIx, ok \in BOOLEAN : toggleCompleteCompleted(k, ok)
  \/ \E k \in CallIx, outcome \in UncompleteOutcomes : toggleCompleteUncompleted(k, outcome)

Spec == Init /\ [][Next]_vars

\* Runs in which every handler invocation has resolved before the next starts
NextSeq == Next /\ Len(calls') <= 1

SpecSeq == Init /\ [][NextSeq]_vars

\* Runs of the trip-detail screen that consist of moveStop calls only
NextMove ==
  \/ \E index \in Indices, direction \in Directions : moveStop(index, direction)
  \/ \E k \in CallIx : \E failed \in Failures(k) : moveStopReordered(k, failed)

SpecMove == Init /\ [][NextMove]_vars

\* Runs of the trip-detail screen that consist of handleDelete calls only
NextDelete ==
  \/ \E id \in StopIds : handleDelete(id)
  \/ \E k \in CallIx, ok \in BOOLEAN : handleDeleteDeleted(k, ok)
  \/ \E k \in CallIx : \E failed \in Failures(k) : handleDeleteReordered(k, failed)

SpecDelete == Init /\ [][NextDelete]_vars

\* Runs of the trip-detail screen that consist of moveStop and addStop calls
NextMoveAdd ==
  \/ \E index \in Indices, direction \in Directions : moveStop(index, direction)
  \/ \E k \in CallIx : \E failed \in Failures(k) : moveStopReordered(k, failed)
  \/ \E afterIndex \in 0..(Len(stops) - 2) : addStop(afterIndex)
  \/ \E k \in CallIx, ok \in BOOLEAN : addStopSaved(k, ok)
  \/ \E k \in CallIx : \E failed \in Failures(k) : addStopReordered(k, failed)

SpecMoveAdd == Init /\ [][NextMoveAdd]_vars

\* every afterIndex that puts the new stop somewhere in the list; the
\* screen's buttons pass 0..Len(stops)-2
AfterIndices == -1..(Len(stops) - 1)

\* Runs of the trip-detail screen that consist of addStop calls, addStop
\* being called with any afterIndex
NextAddStop ==
  \/ \E afterIndex \in AfterIndices : addStop(afterIndex)
  \/ \E k \in CallIx, ok \in BOOLEAN : addStopSaved(k, ok)
  \/ \E k \in CallIx : \E failed \in Failures(k) : addStopReordered(k, failed)

SpecAddStop == Init /\ [][NextAddStop]_vars

----------------------------------------------------------------------------
(* Mileage between two consecutive stops: lib/trips.ts dbStopToUIStop       *)
(* (odometer, mileageToNext) and TripDetailScreen getComputedMileage        *)

\* the part of the application named is exercised, on no stop list
Exercised(part) ==
  /\ screen = part /\ stops = <<>> /\ db = NoTable /\ calls = <<>>
  /\ alert = "" /\ seq = 0 /\ ops = 0

\* odometer_reading values of the stored rows
Readings == {Some(100), Some(250), Some(1250)}

\* A text: its digits read as a number (Null when it has none), whether it
\* groups them by commas, and whether it is the empty string
Text(digits, commas, blank) == [digits |-> digits, commas |-> commas, blank |-> blank]
Blank == Text(Null, FALSE, TRUE)
Junk == Text(Null, FALSE, FALSE)           \* such as "n/a"
Digits(n) == Text(Some(n), FALSE, FALSE)

\* what is typed into a numeric TextInput
Typed == {Blank, Junk, Digits(100), Digits(250), Digits(999)}

\* a null or zero number in a JavaScript condition
Falsy(n) == n = Null \/ n = Some(0)

\* Number.prototype.toLocaleString() of a whole number: the digits, grouped
\* by commas from 1,000 on
toLocaleString(n) == Text(Some(n), n >= 1000, FALSE)

\* dbStopToUIStop: odometer
formatOdometer(odometer_reading) ==
  IF Falsy(odometer_reading) THEN Blank ELSE toLocaleString(odometer_reading[1])

\* dbStopToUIStop: mileageToNext, nextReading being Null for the last stop
loadedMileageToNext(reading, nextReading) ==
  IF ~Falsy(nextReading) /\ ~Falsy(reading)
    THEN Some(nextReading[1] - reading[1]) ELSE Null

\* parseOdometer: null for the empty string, else strip everything but
\* digits and the point and parseFloat, null when that is NaN
parseOdometer(val) == IF val.blank THEN Null ELSE val.digits

\* the modal's MILES TO NEXT STOP input: t ? parseInt(t, 10) || 0 : null
parseMileage(t) ==
  IF t.blank THEN Null ELSE IF t.digits = Null THEN Some(0) ELSE t.digits

\* getComputedMileage on the stop current and the stop after it (Null when
\* current is the last stop)
getComputedMileage(current, next) ==
  IF next = Null THEN Null
  ELSE LET curOdo  == parseOdometer(current.odometer)
           nextOdo == parseOdometer(next[1].odometer)
       IN  IF curOdo # Null /\ nextOdo # Null /\ nextOdo[1] > curOdo[1]
             THEN Some(nextOdo[1] - curOdo[1])
             ELSE current.mileageToNext

\* totalMileage: what the reduce adds for a leg, mi || 0
summedMileage(mi) == IF Falsy(mi) THEN 0 ELSE mi[1]

\* fetchTripStops of two consecutive rows with the readings a and b
LoadLeg(a, b) ==
  [current |-> [odometer |-> formatOdometer(a),
                mileageToNext |-> loadedMileageToNext(a, b)],
   next    |-> [odometer |-> formatOdometer(b)],
   manual   |-> Null,     \* what was entered as miles to the next stop
   rendered |-> FALSE,    \* the leg has been rendered since the last edit
   mi       |-> Null]     \* the mileage shown for the leg when rendered

InitMileage ==
  /\ Exercised("mileage")
  /\ \E a, b \in Readings \cup {Null} : unit = LoadLeg(a, b)

\* the modal saved with another text in MILES TO NEXT STOP of the first stop
EditMileageToNext(t) ==
  /\ screen = "mileage" /\ CanStart
  /\ unit' = [unit EXCEPT !.current.mileageToNext = parseMileage(t),
                         !.manual = parseMileage(t),
                         !.rendered = FALSE, !.mi = Null]
  /\ ops' = ops + 1
  /\ UNCHANGED <<screen, stops, db, calls, alert, seq>>

\* the modal saved with another text in ODOMETER of the first or second stop
EditOdometer(first, t) ==
  /\ screen = "mileage" /\ CanStart
  /\ unit' = IF first
              THEN [unit EXCEPT !.current.odometer = t, !.rendered = FALSE, !.mi = Null]
              ELSE [unit EXCEPT !.next.odometer = t, !.rendered = FALSE, !.mi = Null]
  /\ ops' = ops + 1
  /\ UNCHANGED <<screen, stops, db, calls, alert, seq>>

\* the render of the leg: const mi = getComputedMileage(index)
RenderLeg ==
  /\ screen = "mileage" /\ ~unit.rendered
  /\ unit' = [unit EXCEPT !.rendered = TRUE,
                         !.mi = getComputedMileage(unit.current, Some(unit.next))]
  /\ UNCHANGED <<screen, stops, db, calls, alert, seq, ops>>

NextMileage ==
  \/ \E t \in Typed : EditMileageToNext(t)
  \/ \E first \in BOOLEAN, t \in Typed : EditOdometer(first, t)
  \/ RenderLeg

SpecMileage == InitMileage /\ [][NextMileage]_vars

----------------------------------------------------------------------------
(* Lateness of a stop: lib/trips.ts dbStopToUIStop (isLate)                 *)

\* "2026-02-DD", an expected_date
FebruaryDay(dd) == [day |-> dd]

\* "HH:MM" (5 characters) and "HH:MM:SS", the two shapes of expected_time
HHMM(h, m) == [h |-> h, m |-> m, s |-> Null]
HHMMSS(h, m, s) == [h |-> h, m |-> m, s |-> Some(s)]

\* "2026-02-DDTHH:MM:SS" followed by nothing (zone = Null) or by a UTC offset
\* in minutes, a completed_at
Timestamp(dd, h, m, s, zone) == [day |-> dd, h |-> h, m |-> m, s |-> s, zone |-> zone]

\* expected_time.length === 5 ? expected_time + ":00" : expected_time
withSeconds(expected_time) ==
  IF expected_time.s = Null THEN [expected_time EXCEPT !.s = Some(0)]
  ELSE expected_time

\* `${expected_date}T${time}`
dateTime(expected_date, time) ==
  Timestamp(expected_date.day, time.h, time.m, time.s[1], Null)

\* new Date(string): seconds since 2026-02-01T00:00:00Z; a date-time without
\* an offset is read in the zone of the device (tz, minutes east of UTC)
newDate(ts, tz) ==
  ((ts.day - 1) * 24 + ts.h) * 3600 + ts.m * 60 + ts.s
    - (IF ts.zone = Null THEN tz ELSE ts.zone[1]) * 60

\* isLate with >= in place of >
isLate_notStrict(dbStop, tz) ==
  /\ dbStop.expected_date # Null /\ dbStop.completed_at # Null
  /\ LET expectedStr ==
           IF dbStop.expected_time # Null
             THEN dateTime(dbStop.expected_date[1], withSeconds(dbStop.expected_time[1]))
             ELSE dateTime(dbStop.expected_date[1], HHMMSS(23, 59, 59))
     IN  newDate(dbStop.completed_at[1], tz) >= newDate(expectedStr, tz)

\* isLate with the end-of-day default taken as 00:00:00
isLate_defaultMidnight(dbStop, tz) ==
  /\ dbStop.expected_date # Null /\ dbStop.completed_at # Null
  /\ LET expectedStr ==
           IF dbStop.expected_time # Null
             THEN dateTime(dbStop.expected_date[1], withSeconds(dbStop.expected_time[1]))
             ELSE dateTime(dbStop.expected_date[1], HHMMSS(0, 0, 0))
     IN  newDate(dbStop.completed_at[1], tz) > newDate(expectedStr, tz)

\* dbStopToUIStop: isLate
isLate(dbStop, tz) ==
  /\ dbStop.expected_date # Null /\ dbStop.completed_at # Null
  /\ LET expectedStr ==
           IF dbStop.expected_time # Null
             THEN dateTime(dbStop.expected_date[1], withSeconds(dbStop.expected_time[1]))
             ELSE dateTime(dbStop.expected_date[1], HHMMSS(23, 59, 59))
     IN  newDate(dbStop.completed_at[1], tz) > newDate(expectedStr, tz)

\* the stored values the conversion is exercised on
ExpectedDates == {Null, Some(FebruaryDay(6))}
ExpectedTimes == {Null, Some(HHMM(23, 59)), Some(HHMMSS(18, 0, 0)), Some(HHMMSS(23, 59, 30))}
CompletedAts ==
  {Null,
   Some(Timestamp(6, 18, 0, 0, Null)), Some(Timestamp(6, 23, 59, 1, Null)),
   Some(Timestamp(6, 23, 59, 59, Null)), Some(Timestamp(7, 0, 0, 0, Null)),
   Some(Timestamp(6, 23, 59, 1, Some(0))), Some(Timestamp(7, 4, 59, 59, Some(0)))}
TimeZones == {-300, 0, 60}

InitLateness ==
  /\ Exercised("lateness")
  /\ \E d \in ExpectedDates, t \in ExpectedTimes, c \in CompletedAts, tz \in TimeZones :
       unit = [dbStop |-> [expected_date |-> d, expected_time |-> t, completed_at |-> c],
               tz |-> tz, converted |-> FALSE, isLate |-> FALSE]

\* fetchTripStops converts the row
ConvertRow ==
  /\ screen = "lateness" /\ ~unit.converted
  /\ unit' = [unit EXCEPT !.converted = TRUE, !.isLate = isLate(unit.dbStop, unit.tz)]
  /\ UNCHANGED <<screen, stops, db, calls, alert, seq, ops>>

NextLateness == ConvertRow

SpecLateness == InitLateness /\ [][NextLateness]_vars

----------------------------------------------------------------------------
(* The expense form: app/expenses/new.tsx NewExpenseScreen (net, GST, total) *)

MaxEdits == 3   \* edits of the amount fields in one behaviour

\* The text of an amount field: its value in cents (Null for the empty
\* string) and whether it is written with two decimals, as toFixed(2) does
Amount(cents, fixed) == [cents |-> cents, fixed |-> fixed]
NoAmount == Amount(Null, FALSE)
Dollars(n) == Amount(Some(n * 100), FALSE)     \* "80" typed by the user

\* what is typed into the decimal-pad inputs
TypedAmounts == {NoAmount, Dollars(5), Dollars(10), Dollars(20), Dollars(80), Dollars(120)}

\* parseFloat(text) || 0, in cents
parseFloatOr0(text) == IF text.cents = Null THEN 0 ELSE text.cents[1]

\* (cents / 100).toFixed(2)
toFixed2(cents) == Amount(Some(cents), TRUE)

\* a non-empty string in a JavaScript condition
Filled(text) == text.cents # Null

\* useState initial values; showTaxBreakdown follows the country setting
NewExpenseForm(showTaxBreakdown) ==
  [netAmount |-> NoAmount, gst |-> NoAmount, total |-> NoAmount,
   lastEdited |-> Null, showTaxBreakdown |-> showTaxBreakdown,
   dirty |-> FALSE,   \* a dependency of the effect changed since it last ran
   written |-> {}]    \* the fields the effect gave another value since the last edit

InitExpense ==
  /\ Exercised("expense")
  /\ \E showTaxBreakdown \in BOOLEAN : unit = NewExpenseForm(showTaxBreakdown)

\* the fields of form that the effect depends on differ from those of unit
DepsChanged(form) ==
  <<form.netAmount, form.gst, form.total, form.lastEdited>>
    # <<unit.netAmount, unit.gst, unit.total, unit.lastEdited>>

\* the amount fields that stand for another amount in after than in before
Rewritten(before, after) ==
  {f \in {"net", "gst", "total"} :
     LET old == IF f = "net" THEN before.netAmount
                ELSE IF f = "gst" THEN before.gst ELSE before.total
         new == IF f = "net" THEN after.netAmount
                ELSE IF f = "gst" THEN after.gst ELSE after.total
     IN  old.cents # new.cents}

\* an edit is handled once the effect of the previous render has run
CanEdit == screen = "expense" /\ ~unit.dirty /\ ops < MaxEdits

Edited(form) ==
  /\ unit' = [form EXCEPT !.dirty = DepsChanged(form), !.written = {}]
  /\ ops' = ops + 1
  /\ UNCHANGED <<screen, stops, db, calls, alert, seq>>

\* onChangeText is called when the text of the input changes
onNetChange(val) ==
  /\ CanEdit /\ unit.showTaxBreakdown
  /\ val # unit.netAmount
  /\ Edited([unit EXCEPT !.netAmount = val, !.lastEdited = Some("net")])

onGstChange(val) ==
  /\ CanEdit /\ unit.showTaxBreakdown
  /\ val # unit.gst
  /\ Edited([unit EXCEPT !.gst = val, !.lastEdited = Some("gst")])

\* the total input: onTotalChange with the tax breakdown, setTotal without
onTotalChange(val) ==
  /\ CanEdit
  /\ val # unit.total
  /\ Edited(IF unit.showTaxBreakdown
              THEN [unit EXCEPT !.total = val, !.lastEdited = Some("total")]
              ELSE [unit EXCEPT !.total = val])

\* the effect with the test of the total branch made first for a GST edit
effect_gstPrefersTotal(form) ==
  LET net == parseFloatOr0(form.netAmount)
      tax == parseFloatOr0(form.gst)
      tot == parseFloatOr0(form.total)
  IN  IF ~form.showTaxBreakdown THEN form
      ELSE IF \/ form.lastEdited = Some("total")
              \/ form.lastEdited = Some("gst") /\ Filled(form.total)
        THEN [form EXCEPT !.netAmount =
                IF tot - tax >= 0 THEN toFixed2(tot - tax) ELSE toFixed2(0)]
      ELSE IF \/ form.lastEdited = Some("net")
              \/ form.lastEdited = Some("gst") /\ Filled(form.netAmount)
        THEN [form EXCEPT !.total = toFixed2(net + tax)]
      ELSE form

\* the effect without the floor at zero
effect_noFloor(form) ==
  LET net == parseFloatOr0(form.netAmount)
      tax == parseFloatOr0(form.gst)
      tot == parseFloatOr0(form.total)
  IN  IF ~form.showTaxBreakdown THEN form
      ELSE IF \/ form.lastEdited = Some("net")
              \/ form.lastEdited = Some("gst") /\ Filled(form.netAmount)
        THEN [form EXCEPT !.total = toFixed2(net + tax)]
      ELSE IF \/ form.lastEdited = Some("total")
              \/ form.lastEdited = Some("gst") /\ Filled(form.total)
                   /\ ~Filled(form.netAmount)
        THEN [form EXCEPT !.netAmount = toFixed2(tot - tax)]
      ELSE form

\* the effect, recording the field it wrote as the one edited last
effect_setsLastEdited(form) ==
  LET net == parseFloatOr0(form.netAmount)
      tax == parseFloatOr0(form.gst)
      tot == parseFloatOr0(form.total)
  IN  IF ~form.showTaxBreakdown THEN form
      ELSE IF \/ form.lastEdited = Some("net")
              \/ form.lastEdited = Some("gst") /\ Filled(form.netAmount)
        THEN [form EXCEPT !.total = toFixed2(net + tax),
                          !.lastEdited = Some("total")]
      ELSE IF \/ form.lastEdited = Some("total")
              \/ form.lastEdited = Some("gst") /\ Filled(form.total)
                   /\ ~Filled(form.netAmount)
        THEN [form EXCEPT !.netAmount =
                IF tot - tax >= 0 THEN toFixed2(tot - tax) ELSE toFixed2(0),
                          !.lastEdited = Some("net")]
      ELSE form

\* the body of the useEffect on [netAmount, gst, total, lastEdited,
\* showTaxBreakdown]: the form after its setTotal or setNetAmount
effect(form) ==
  LET net == parseFloatOr0(form.netAmount)
      tax == parseFloatOr0(form.gst)
      tot == parseFloatOr0(form.total)
  IN  IF ~form.showTaxBreakdown THEN form
      ELSE IF \/ form.lastEdited = Some("net")
              \/ form.lastEdited = Some("gst") /\ Filled(form.netAmount)
        THEN [form EXCEPT !.total = toFixed2(net + tax)]
      ELSE IF \/ form.lastEdited = Some("total")
              \/ form.lastEdited = Some("gst") /\ Filled(form.total)
                   /\ ~Filled(form.netAmount)
        THEN [form EXCEPT !.netAmount =
                IF tot - tax >= 0 THEN toFixed2(tot - tax) ELSE toFixed2(0)]
      ELSE form

\* the effect runs after a render in which one of its dependencies changed
RunEffect ==
  /\ screen = "expense" /\ unit.dirty
  /\ unit' = [effect(unit) EXCEPT
       !.dirty = DepsChanged(effect(unit)),
       !.written = @ \cup Rewritten(unit, effect(unit))]
  /\ UNCHANGED <<screen, stops, db, calls, alert, seq, ops>>

NextExpense ==
  \/ \E val \in TypedAmounts : onNetChange(val)
  \/ \E val \in TypedAmounts : onGstChange(val)
  \/ \E val \in TypedAmounts : onTotalChange(val)
  \/ RunEffect

SpecExpense == InitExpense /\ [][NextExpense]_vars

\* React runs the effect of a render whose dependencies changed
SpecExpenseFair == SpecExpense /\ WF_vars(RunEffect)

----------------------------------------------------------------------------
(* The trip number allocator: lib/sequences.ts getNextTripNumber *)

MaxAllocations == 3   \* calls of getNextTripNumber in one behaviour

\* trip_number_sequence values a tenant's settings row may hold
StoredSequences == {Null, Some(1), Some(100), Some(101), Some(500)}

\* the tenant's row of the settings table: Null when there is none
SettingsRows == {Null} \cup {Some([trip_number_sequence |-> v]) : v \in StoredSequences}

\* what a call can meet: no session, and errors of the three requests
Sessions == BOOLEAN
RequestErrors == BOOLEAN

InitSequences ==
  /\ Exercised("sequences")
  /\ \E row \in SettingsRows :
       unit = [settings |-> row,   \* the settings table, for this tenant
               returned |-> <<>>,  \* the numbers the calls returned, in order
               error |-> Null]     \* what the last call threw

\* .select("trip_number_sequence").eq("tenant_id", tenantId).single():
\* the row, or no data and error PGRST116 when no row matches
single(settings) ==
  IF settings = Null THEN [data |-> Null, error |-> Some("PGRST116")]
  ELSE [data |-> settings, error |-> Null]

\* settings?.trip_number_sequence ?? 100
currentSequence(data) ==
  IF data = Null \/ data[1].trip_number_sequence = Null THEN 100
  ELSE data[1].trip_number_sequence[1]

\* .update({trip_number_sequence: next}).eq("tenant_id", tenantId): every
\* matching row is changed; matching no row is not an error
update(settings, next) ==
  IF settings = Null THEN settings
  ELSE Some([settings[1] EXCEPT !.trip_number_sequence = Some(next)])

\* .upsert({tenant_id, trip_number_sequence: next}, {onConflict: "tenant_id"})
upsert(settings, next) ==
  IF settings = Null THEN Some([trip_number_sequence |-> Some(next)])
  ELSE Some([settings[1] EXCEPT !.trip_number_sequence = Some(next)])

Threw(message) ==
  unit' = [unit EXCEPT !.error = Some(message)]

\* one whole call of getNextTripNumber; calls do not overlap
getNextTripNumber(session, fetchError, updateError, upsertError) ==
  /\ screen = "sequences" /\ ops < MaxAllocations
  /\ ops' = ops + 1
  /\ UNCHANGED <<screen, stops, db, calls, alert, seq>>
  /\ LET fetched == single(unit.settings)
         current == currentSequence(fetched.data)
         next    == current + 1
     IN  IF ~session THEN Threw("No tenant_id found")
         ELSE IF fetchError THEN Threw("fetchError")
         ELSE IF ~updateError
           THEN unit' = [settings |-> update(unit.settings, next),
                         returned |-> Append(unit.returned, current),
                         error |-> Null]
         ELSE IF ~upsertError
           THEN unit' = [settings |-> upsert(unit.settings, next),
                         returned |-> Append(unit.returned, current),
                         error |-> Null]
         ELSE Threw("upsertError")

NextSequences ==
  \E session \in Sessions, fetchError, updateError, upsertError \in RequestErrors :
    getNextTripNumber(session, fetchError, updateError, upsertError)

SpecSequences == InitSequences /\ [][NextSequences]_vars

\* Calls of getNextTripNumber that overlap: each call is suspended at its
\* awaits (the select, the update, the upsert), and the requests of the
\* calls in flight reach the database in any order. The tenant has a
\* settings row.
InitOverlap ==
  /\ Exercised("overlap")
  /\ \E row \in SettingsRows \ {Null} :
       unit = [settings |-> row,
               inFlight |-> <<>>,  \* the calls in flight: [pc, current]
               returned |-> <<>>,
               error    |-> Null]

\* getNextTripNumber() up to the await of the select (the tenant is found)
tripNumberRequested ==
  /\ screen = "overlap" /\ ops < MaxAllocations
  /\ ops' = ops + 1
  /\ unit' = [unit EXCEPT !.inFlight = Append(@, [pc |-> "select", current |-> Null])]
  /\ UNCHANGED <<screen, stops, db, calls, alert, seq>>

InFlight(i, pc) ==
  /\ screen = "overlap"
  /\ i \in 1..Len(unit.inFlight) /\ unit.inFlight[i].pc = pc
  /\ UNCHANGED <<screen, stops, db, calls, alert, seq, ops>>

\* the select resolved: current is read, the update is sent
sequenceSelected(i, fetchError) ==
  /\ InFlight(i, "select")
  /\ IF fetchError
       THEN unit' = [unit EXCEPT !.inFlight = RemoveAt(@, i),
                                 !.error = Some("fetchError")]
       ELSE unit' = [unit EXCEPT !.inFlight[i] =
              [pc |-> "update",
               current |-> Some(currentSequence(single(unit.settings).data))]]

\* the update resolved: return current, or go on to the upsert
sequenceUpdated(i, updateError) ==
  /\ InFlight(i, "update")
  /\ LET current == unit.inFlight[i].current[1]
     IN  IF updateError
           THEN unit' = [unit EXCEPT !.inFlight[i].pc = "upsert"]
           ELSE unit' = [unit EXCEPT
                  !.settings = update(@, current + 1),
                  !.inFlight = RemoveAt(@, i),
                  !.returned = Append(@, current),
                  !.error = Null]

\* the upsert resolved: return current, or throw
sequenceUpserted(i, upsertError) ==
  /\ InFlight(i, "upsert")
  /\ LET current == unit.inFlight[i].current[1]
     IN  IF upsertError
           THEN unit' = [unit EXCEPT !.inFlight = RemoveAt(@, i),
                                     !.error = Some("upsertError")]
           ELSE unit' = [unit EXCEPT
                  !.settings = upsert(@, current + 1),
                  !.inFlight = RemoveAt(@, i),
                  !.returned = Append(@, current),
                  !.error = Null]

NextOverlap ==
  \/ tripNumberRequested
  \/ \E i \in 1..MaxAllocations, fetchError \in RequestErrors : sequenceSelected(i, fetchError)
  \/ \E i \in 1..MaxAllocations, updateError \in RequestErrors : sequenceUpdated(i, updateError)
  \/ \E i \in 1..MaxAllocations, upsertError \in RequestErrors : sequenceUpserted(i, upsertError)

SpecOverlap == InitOverlap /\ [][NextOverlap]_vars

----------------------------------------------------------------------------
(* lib/trips.ts: the current stop of a fetched trip (dbStopToUIStop isCurrent) *)

MaxRows == 4   \* rows of the fetched trip

StopStatuses == {"pending", "complete"}

\* the status column of the rows fetchTripStops receives, by stop_order
FetchedStatuses ==
  UNION {[1..n -> StopStatuses] : n \in 0..MaxRows}

\* allStops.filter(s => s.status === "complete").length
completedStops(allStops) ==
  Cardinality({i \in 1..Len(allStops) : allStops[i] = "complete"})

\* isCurrent of dbStopToUIStop(dbStop, index, allStops), index 0-based
isCurrent(status, index, allStops) ==
  index = completedStops(allStops) /\ status = "pending"

InitCurrent ==
  /\ Exercised("current")
  /\ \E data \in FetchedStatuses :
       unit = [data |-> data,      \* status of each fetched row
               mapped |-> <<>>]    \* isCurrent of the rows converted so far

\* one callback of data.map((dbStop, index) => dbStopToUIStop(...))
MapStop ==
  /\ screen = "current"
  /\ Len(unit.mapped) < Len(unit.data)
  /\ LET index == Len(unit.mapped)
     IN  unit' = [unit EXCEPT !.mapped =
                    Append(@, isCurrent(unit.data[index + 1], index, unit.data))]
  /\ UNCHANGED <<screen, stops, db, calls, alert, seq, ops>>

NextCurrent == MapStop

SpecCurrent == InitCurrent /\ [][NextCurrent]_vars

----------------------------------------------------------------------------
(* TripDetailScreen: the date fields and isLate of one stop of the list *)

DeviceZone == 0                 \* the device's offset from UTC, in minutes
Today      == FebruaryDay(7)    \* new Date() in the modal: the day ...
NowTime    == HHMM(10, 0)       \* ... and getHours():getMinutes()

\* rows the screen is loaded from; completed_at is set with status complete
LoadedRows ==
  {[expected_date |-> d, expected_time |-> t, completed_at |-> c] :
     d \in {Null, Some(FebruaryDay(6))},
     t \in {Null, Some(HHMM(18, 0))},
     c \in {Null, Some(Timestamp(6, 10, 0, 0, Null)), Some(Timestamp(7, 10, 0, 0, Null))}}

\* dbStopToUIStop: the date fields, isCompleted and isLate of the UI stop
\* (actualDate and actualTime are the local date and hour:minute of
\* completed_at)
LoadedStop(dbStop) ==
  [expectedDate |-> dbStop.expected_date,
   expectedTime |-> dbStop.expected_time,
   actualDate   |-> IF dbStop.completed_at = Null THEN Null
                    ELSE Some(FebruaryDay(dbStop.completed_at[1].day)),
   actualTime   |-> IF dbStop.completed_at = Null THEN Null
                    ELSE Some(HHMM(dbStop.completed_at[1].h, dbStop.completed_at[1].m)),
   isCompleted  |-> dbStop.completed_at # Null,
   isLate       |-> isLate(dbStop, DeviceZone)]

\* what the modal's date and time fields are set to
DraftDates == {Null, Some(FebruaryDay(6)), Some(FebruaryDay(7))}
DraftTimes == {Null, Some(HHMM(10, 0)), Some(HHMM(18, 0))}

\* the modal's draft: a copy of the stop with its four date fields edited
Draft(stop, ed, et, ad, at) ==
  [stop EXCEPT !.expectedDate = ed, !.expectedTime = et,
               !.actualDate = ad, !.actualTime = at]

\* uiStopToDBStop: completed_at, the actual date (today when only a time is
\* given) at the actual time (12:00 when only a date is given, and hour 12
\* for hour 0), on the device's clock; null for a stop that is not completed
completedAt(uiStop) ==
  IF ~uiStop.isCompleted \/ (uiStop.actualDate = Null /\ uiStop.actualTime = Null)
    THEN Null
  ELSE LET date == IF uiStop.actualDate = Null THEN Today ELSE uiStop.actualDate[1]
           time == IF uiStop.actualTime = Null THEN HHMM(12, 0) ELSE uiStop.actualTime[1]
           th   == IF time.h = 0 THEN 12 ELSE time.h
       IN  Some(Timestamp(date.day, th, time.m, 0, Null))

InitDerived ==
  /\ Exercised("derived")
  /\ \E dbStop \in LoadedRows :
       unit = [stop |-> LoadedStop(dbStop),   \* the stop in the local list
               last |-> Null]                 \* the last handler that ran

Handled(name, stop) ==
  /\ unit' = [stop |-> stop, last |-> Some(name)]
  /\ UNCHANGED <<screen, stops, db, calls, alert, seq, ops>>

\* handleSave(draft), saveStop having succeeded:
\* setStops(prev => prev.map(s => s.id === updated.id ? updated : s))
handleSaveLocal(ed, et, ad, at) ==
  /\ screen = "derived"
  /\ Handled("handleSave", Draft(unit.stop, ed, et, ad, at))

\* the modal's Complete button, then handleComplete(stopId, completedDraft),
\* saveStop having succeeded: the actual date and time of the draft, now when
\* both are empty; the stop becomes {...s, isCompleted: true, ...completedDraft}
handleCompleteLocal(ed, et, ad, at) ==
  /\ screen = "derived" /\ ~unit.stop.isCompleted
  /\ LET draft == Draft(unit.stop, ed, et, ad, at)
         empty == draft.actualDate = Null /\ draft.actualTime = Null
         completedDraft ==
           [draft EXCEPT !.isCompleted = TRUE,
                         !.actualDate = IF empty THEN Some(Today) ELSE @,
                         !.actualTime = IF empty THEN Some(NowTime) ELSE @]
     IN  Handled("handleComplete", completedDraft)

\* toggleComplete(stopId), the remote update having succeeded:
\* {...s, isCompleted: !s.isCompleted}
toggleCompleteLocal ==
  /\ screen = "derived"
  /\ Handled("toggleComplete", [unit.stop EXCEPT !.isCompleted = ~@])

NextDerived ==
  \/ \E ed, ad \in DraftDates, et, at \in DraftTimes : handleSaveLocal(ed, et, ad, at)
  \/ \E ed, ad \in DraftDates, et, at \in DraftTimes : handleCompleteLocal(ed, et, ad, at)
  \/ toggleCompleteLocal

SpecDerived == InitDerived /\ [][NextDerived]_vars

----------------------------------------------------------------------------
(* StopDetailModal: the debounced location search *)

MaxKeystrokes == 4   \* edits of the search state in one behaviour
QuietTicks == 3      \* the 300 ms of setTimeout, in ticks of 100 ms

\* what is typed into the search input
Queries == {"", " ", "a", "ab"}

\* String.prototype.trim
trim(query) == IF query = " " THEN "" ELSE query

\* useState initial values, the modal being in editing mode; searchResults
\* is Null for [] and Some(q) for the locations searchLocations(q) returned
InitSearch ==
  /\ Exercised("search")
  /\ unit = [searchMode    |-> FALSE,
             searchQuery   |-> "",
             searchResults |-> Null,
             timers    |-> <<>>,   \* pending setTimeout callbacks
             searches  |-> {},     \* queries of the searchLocations calls in flight
             quiet     |-> QuietTicks,  \* ticks since searchQuery or searchMode changed
             cancelled |-> FALSE,  \* the last cleanup cleared a pending timer
             issued    |-> <<>>]   \* queries searchLocations was called with

\* the cleanup without clearTimeout
clearTimeout_none(timers) == timers

\* return () => clearTimeout(timer): the effect's one timer is cleared
clearTimeout(timers) == <<>>

\* a render in which searchQuery or searchMode changed: the cleanup of the
\* previous effect, then the body of the effect
searchEffect(form) ==
  LET cleaned == [form EXCEPT !.timers = clearTimeout(form.timers),
                              !.cancelled = form.timers # <<>>,
                              !.quiet = 0]
  IN  IF ~cleaned.searchMode \/ trim(cleaned.searchQuery) = ""
        THEN [cleaned EXCEPT !.searchResults = Null]
        ELSE [cleaned EXCEPT !.timers =
                Append(@, [query |-> cleaned.searchQuery, remaining |-> QuietTicks])]

CanType == screen = "search" /\ ops < MaxKeystrokes

SearchEdited(form) ==
  /\ unit' = form
  /\ ops' = ops + 1
  /\ UNCHANGED <<screen, stops, db, calls, alert, seq>>

\* onChangeText={setSearchQuery} of the input shown in search mode; setting
\* the state to the value it has renders nothing
setSearchQuery(text) ==
  /\ CanType /\ unit.searchMode
  /\ text # unit.searchQuery
  /\ SearchEdited(searchEffect([unit EXCEPT !.searchQuery = text]))

\* the Search Saved / Manual Entry button
toggleSearchMode ==
  /\ CanType
  /\ SearchEdited(searchEffect([unit EXCEPT !.searchMode = ~@,
                                            !.searchQuery = "",
                                            !.searchResults = Null]))

\* a location of the result list is pressed
handleSelectLocation ==
  /\ CanType /\ unit.searchMode /\ unit.searchResults # Null
  /\ SearchEdited(searchEffect([unit EXCEPT !.searchMode = FALSE,
                                            !.searchQuery = "",
                                            !.searchResults = Null]))

\* 100 ms pass; a timer that is due runs before more time passes
Tick ==
  /\ screen = "search"
  /\ \A i \in 1..Len(unit.timers) : unit.timers[i].remaining > 0
  /\ unit.timers # <<>> \/ unit.quiet < QuietTicks
  /\ unit' = [unit EXCEPT
       !.timers = [i \in 1..Len(@) |-> [@[i] EXCEPT !.remaining = @ - 1]],
       !.quiet  = IF @ < QuietTicks THEN @ + 1 ELSE @]
  /\ UNCHANGED <<screen, stops, db, calls, alert, seq, ops>>

\* the setTimeout callback up to its await: searchLocations(searchQuery)
\* with the searchQuery of the render that set the timer
TimerFires(i) ==
  /\ screen = "search"
  /\ i \in 1..Len(unit.timers) /\ unit.timers[i].remaining = 0
  /\ unit' = [unit EXCEPT
       !.timers   = RemoveAt(@, i),
       !.searches = @ \cup {unit.timers[i].query},
       !.issued   = Append(@, unit.timers[i].query)]
  /\ UNCHANGED <<screen, stops, db, calls, alert, seq, ops>>

\* searchLocations(query) resolved: setSearchResults(results), or the alert
searchResolved(query, ok) ==
  /\ screen = "search"
  /\ query \in unit.searches
  /\ unit' = [unit EXCEPT
       !.searches = @ \ {query},
       !.searchResults = IF ok THEN Some(query) ELSE @]
  /\ UNCHANGED <<screen, stops, db, calls, alert, seq, ops>>

NextSearch ==
  \/ \E text \in Queries : setSearchQuery(text)
  \/ toggleSearchMode
  \/ handleSelectLocation
  \/ Tick
  \/ \E i \in 1..MaxKeystrokes : TimerFires(i)
  \/ \E query \in Queries, ok \in BOOLEAN : searchResolved(query, ok)

SpecSearch == InitSearch /\ [][NextSearch]_vars

----------------------------------------------------------------------------
(* lib/currentTrip.ts: getCurrentTrip *)

MaxTrips == 3   \* trips of the tenant

\* the status column of the stops of one trip
TripStopStatuses ==
  {<<>>, <<"pending">>, <<"complete">>, <<"complete", "pending">>,
   <<"complete", "complete">>}

\* the trips table of the tenant as select(...).order("trip_reference")
\* returns it: the k-th row has the k-th lowest trip_reference; ids are not
\* in the order of the references
TripRows(n) == [k \in 1..n |-> [id |-> n + 1 - k, trip_reference |-> 99 + k]]

\* results of auth.getUser, of the tenant_users query, and errors of the
\* trips and stops queries
QueryOutcomes == BOOLEAN

InitCurrentTrip ==
  /\ Exercised("currentTrip")
  /\ \E n \in 0..MaxTrips : \E statuses \in [1..n -> TripStopStatuses] :
       unit = [trips    |-> TripRows(n),
               statuses |-> statuses,   \* statuses[id]: the stops of trip id
               returned |-> FALSE,
               result   |-> Null]       \* the id of the trip returned

\* stopsByTrip.get(trip.id) || [], stops being the rows the stops query
\* returned (null when it failed)
tripStops(statuses, stopsError, id) == IF stopsError THEN <<>> ELSE statuses[id]

\* allComplete with the test of the length left out
allComplete_emptyIsComplete(list) ==
  \A i \in 1..Len(list) : list[i] = "complete"

\* tripStops.length > 0 && tripStops.every(s => s === "complete")
allComplete(list) ==
  Len(list) > 0 /\ \A i \in 1..Len(list) : list[i] = "complete"

\* for (const trip of trips) { if (!allComplete) return trip }, from the
\* k-th trip on; return null after the loop
RECURSIVE firstNotComplete(_, _, _, _)
firstNotComplete(trips, statuses, stopsError, k) ==
  IF k > Len(trips) THEN Null
  ELSE IF ~allComplete(tripStops(statuses, stopsError, trips[k].id))
    THEN Some(trips[k].id)
  ELSE firstNotComplete(trips, statuses, stopsError, k + 1)

getCurrentTrip(user, tenantUser, tripsError, stopsError) ==
  /\ screen = "currentTrip" /\ ~unit.returned
  /\ unit' = [unit EXCEPT
       !.returned = TRUE,
       !.result =
         IF ~user \/ ~tenantUser THEN Null
         ELSE IF tripsError \/ Len(unit.trips) = 0 THEN Null
         ELSE firstNotComplete(unit.trips, unit.statuses, stopsError, 1)]
  /\ UNCHANGED <<screen, stops, db, calls, alert, seq, ops>>

\* one call, whatever its requests meet
NextCurrentTrip ==
  \E user, tenantUser, tripsError, stopsError \in QueryOutcomes :
    getCurrentTrip(user, tenantUser, tripsError, stopsError)

SpecCurrentTrip == InitCurrentTrip /\ [][NextCurrentTrip]_vars

----------------------------------------------------------------------------
(* TripDetailScreen: the isCompleted and isCurrent flags of the local list *)

\* dbStopToUIStop: the two flags of the stop at index (0-based) of the rows
\* with the statuses allStops
LoadedFlags(allStops, index) ==
  [isCompleted |-> allStops[index + 1] = "complete",
   isCurrent   |-> isCurrent(allStops[index + 1], index, allStops)]

InitFlags ==
  /\ Exercised("flags")
  /\ \E data \in FetchedStatuses :
       unit = [k \in 1..Len(data) |-> LoadedFlags(data, k - 1)]

FlagsChanged(list) ==
  /\ unit' = list
  /\ ops' = ops + 1
  /\ UNCHANGED <<screen, stops, db, calls, alert, seq>>

FlagIndices == 0..(Len(unit) - 1)

\* toggleComplete, the remote update having succeeded:
\* {...s, isCompleted: !s.isCompleted}
toggleCompleteFlags(index) ==
  /\ screen = "flags" /\ CanStart /\ index \in FlagIndices
  /\ FlagsChanged([unit EXCEPT ![index + 1].isCompleted = ~@])

\* the modal's Complete button (shown for a stop that is not completed) and
\* handleComplete(stopId, completedDraft), saveStop having succeeded:
\* {...s, isCompleted: true, isCurrent: false, ...completedDraft}, the
\* draft being a copy of the stop with isCompleted set
handleCompleteFlags(index) ==
  /\ screen = "flags" /\ CanStart /\ index \in FlagIndices
  /\ ~unit[index + 1].isCompleted
  /\ LET s == unit[index + 1]
         completedDraft == [s EXCEPT !.isCompleted = TRUE]
         patched == [s EXCEPT !.isCompleted = TRUE, !.isCurrent = FALSE]
     IN  FlagsChanged([unit EXCEPT ![index + 1] =
           [patched EXCEPT !.isCompleted = completedDraft.isCompleted,
                           !.isCurrent = completedDraft.isCurrent]])

\* handleSave(draft), saveStop having succeeded: the stop is replaced by the
\* draft, a copy of the stop with other fields edited
handleSaveFlags(index) ==
  /\ screen = "flags" /\ CanStart /\ index \in FlagIndices
  /\ FlagsChanged([unit EXCEPT ![index + 1] = unit[index + 1]])

\* moveStop: the swap (the tests of the stop types are not modelled here)
moveStopFlags(index, direction) ==
  /\ screen = "flags" /\ CanStart /\ index \in FlagIndices
  /\ targetIndex(index, direction) \in FlagIndices
  /\ FlagsChanged(swap(unit, index, targetIndex(index, direction)))

\* addStop: the new stop has isCompleted: false, isCurrent: false
addStopFlags(afterIndex) ==
  /\ screen = "flags" /\ CanStart /\ afterIndex \in 0..(Len(unit) - 2)
  /\ FlagsChanged(splice(unit, afterIndex + 1,
                         [isCompleted |-> FALSE, isCurrent |-> FALSE]))

NextFlags ==
  \/ \E index \in 0..MaxRows : toggleCompleteFlags(index)
  \/ \E index \in 0..MaxRows : handleCompleteFlags(index)
  \/ \E index \in 0..MaxRows : handleSaveFlags(index)
  \/ \E index \in 0..MaxRows, direction \in Directions : moveStopFlags(index, direction)
  \/ \E afterIndex \in 0..MaxRows : addStopFlags(afterIndex)

SpecFlags == InitFlags /\ [][NextFlags]_vars

----------------------------------------------------------------------------
(* Properties *)

CountType(list, type) == Cardinality({i \in 1..Len(list) : list[i].type = type})

\* the stored stop_order values are exactly 0 .. n-1, each once
Contiguous(table) ==
  \A order \in 0..(Cardinality(DOMAIN table) - 1) :
    Cardinality({id \in DOMAIN table : table[id].stop_order = order}) = 1

\* C1: on the trip-detail screen, once an operation of a run without
\* overlapping operations has completed, the stop_order values of the stored
\* rows are exactly 0 .. n-1 with no gap and no duplicate.
C1_ContiguousOrders ==
  (screen = "detail" /\ calls = <<>>) => Contiguous(db)

\* empty_start is first and reposition is last
BoundaryLocked(list) ==
  /\ Len(list) >= 2
  /\ list[1].type = "empty_start"
  /\ list[Len(list)].type = "reposition"

\* C2: in runs of moveStop calls on the trip-detail screen, from a list whose
\* first stop is empty_start and whose last stop is reposition, every step
\* leaves that empty_start stop first and that reposition stop last.
C2_BoundaryLock ==
  [][BoundaryLocked(stops) =>
       /\ BoundaryLocked(stops')
       /\ stops'[1] = stops[1]
       /\ Len(stops') = Len(stops)
       /\ stops'[Len(stops')] = stops[Len(stops)]]_vars

C2_Witness ==
  /\ screen = "detail"
  /\ BoundaryLocked(stops)
  /\ Ids(stops) = <<1, 3, 2, 4>>
  /\ ops = MaxOps

\* C3: on the new-trip screen moveStop gives, for every index and direction,
\* the list the trip-detail moveStop gives.
C3_SameOnEverySurface ==
  screen = "new" =>
    \A index \in Indices, direction \in Directions :
      NewTripMoveStop(stops, index, direction) = DetailMoveStop(stops, index, direction)

\* C4: removing a stop from a list of exactly 2 stops (removeStop on the
\* new-trip screen, handleDelete on the trip-detail screen) leaves the list
\* unchanged, issues no remote call, changes no stored row and raises an alert.
C4_FloorRejected ==
  [][\A id \in StopIds :
       (Len(stops) = 2 /\ (NewRemoveStop(id) \/ handleDelete(id))) =>
         /\ stops' = stops
         /\ calls' = calls
         /\ db' = db
         /\ alert' \in {"Minimum Stops", "Cannot Delete"}]_vars

C4_Witness ==
  /\ screen = "detail"
  /\ alert = "Cannot Delete"
  /\ Len(stops) = 2
  /\ calls = <<>>
  /\ Cardinality(DOMAIN db) = 2

\* C5: in runs of handleDelete calls on the trip-detail screen, overlapping
\* ones included, neither the local list nor the stored rows of the trip ever
\* number fewer than 2 stops.
C5_AtLeastTwoStops ==
  screen = "detail" => Len(stops) >= 2 /\ Cardinality(DOMAIN db) >= 2

\* C6: the list never holds two empty_start stops nor two reposition stops;
\* an empty_start stop is first and a reposition stop is last.
C6_UniqueBoundaryStops ==
  /\ CountType(stops, "empty_start") <= 1
  /\ CountType(stops, "reposition") <= 1
  /\ \A i \in 1..Len(stops) :
       /\ stops[i].type = "empty_start" => i = 1
       /\ stops[i].type = "reposition" => i = Len(stops)

\* C7: moveStop keeps the list it was called on, and when its reorderStops
\* rejects, the local list after the revert is that list, at every position.
C7_RevertRestoresSnapshot ==
  [][/\ \A index \in Indices, direction \in Directions :
          (Len(calls') > Len(calls) /\ moveStop(index, direction)) =>
            calls'[Len(calls')].stops = stops
     /\ \A k \in CallIx : \A failed \in Failures(k) \ {{}} :
          (Len(calls') < Len(calls) /\ moveStopReordered(k, failed)) =>
            stops' = calls[k].stops]_vars

C7_Witness ==
  /\ screen = "detail"
  /\ alert = "Failed to reorder stops"
  /\ calls = <<>>
  /\ Ids(stops) = <<1, 2, 3, 4>>
  /\ \E id \in DOMAIN db : db[id].stop_order # id - 1

\* the local change of the invocation c shows in list
Applied(c, list) ==
  CASE c.op \in {"moveStop", "addStop"} -> list = c.newStops
    [] c.op = "handleDelete" -> c.stopId \notin IdSet(list)
    [] c.op \in {"handleSave", "handleComplete"} ->
         \A i \in 1..Len(list) : list[i].id = c.stopId => list[i] = c.updated
    [] c.op = "toggleComplete" ->
         \A i \in 1..Len(list) :
           list[i].id = c.stopId => list[i].isCompleted = ~c.updated.isCompleted

\* a handler has issued its first remote call in this step
Issued == Len(calls') = Len(calls) + 1

C9_FailedCompleteRollsBack ==
  [][\A k \in CallIx :
       ( \/ toggleCompleteCompleted(k, FALSE)
         \/ toggleCompleteUncompleted(k, "error")
         \/ toggleCompleteUncompleted(k, "noTenant")
         \/ handleCompleteSaved(k, FALSE) ) =>
         /\ stops' = stops
         /\ alert' \in {"Failed to update stop", "Failed to complete stop"}]_vars

\* the local list and the stored rows hold the same stops in the same order
InSync(list, table) ==
  /\ Cardinality(DOMAIN table) = Len(list)
  /\ \A i \in 1..Len(list) :
       list[i].id \in DOMAIN table /\ table[list[i].id].stop_order = i - 1

\* C10: on the trip-detail screen, whenever no remote call is in flight the
\* local list and the stored rows hold the same stops in the same order.
C10_InSyncWhenIdle ==
  (screen = "detail" /\ calls = <<>>) => InSync(stops, db)

\* the stored stop_order of every stored stop of list is its position in list
OrderStored(list, table) ==
  \A i \in 1..Len(list) :
    list[i].id \in DOMAIN table => table[list[i].id].stop_order = i - 1

\* list with the change of the invocation c alone taken back: the stop that
\* addStop inserted removed, the two stops that moveStop swapped exchanged
UndoOwn(c, list) ==
  IF c.op = "addStop" THEN filterOut(list, c.stopId)
  ELSE LET pair == {c.stops[i].id : i \in {j \in 1..Len(c.stops) :
                                             c.stops[j].id # c.newStops[j].id}}
           at   == {i \in 1..Len(list) : list[i].id \in pair}
       IN  IF Cardinality(at) # 2 THEN list
           ELSE [i \in 1..Len(list) |->
                   IF i \in at THEN list[CHOOSE j \in at : j # i] ELSE list[i]]

\* the change of the invocation c is in list: the stop addStop inserted is
\* listed, the two stops moveStop swapped are in the order it put them in
OwnApplied(c, list) ==
  IF c.op = "addStop" THEN c.stopId \in IdSet(list)
  ELSE \A i, j \in 1..Len(c.newStops) :
         ( /\ c.stops[i].id # c.newStops[i].id
           /\ c.stops[j].id # c.newStops[j].id
           /\ i < j ) =>
           /\ c.newStops[i].id \in IdSet(list)
           /\ c.newStops[j].id \in IdSet(list)
           /\ findIndex(list, c.newStops[i].id) < findIndex(list, c.newStops[j].id)

\* the step is the revert of the invocation k after its remote write failed
RevertOf(k) ==
  \/ \E failed \in Failures(k) \ {{}} :
       moveStopReordered(k, failed) \/ addStopReordered(k, failed)
  \/ addStopSaved(k, FALSE)

\* C11: in runs of moveStop and addStop calls, when the remote write of an
\* invocation fails while its own change is still in the local list and a
\* later invocation has changed that list and had its order stored, the
\* revert takes back the failed invocation's own change only: the later
\* change stays in the local list.
C11_RevertKeepsLaterChange ==
  [][\A k \in CallIx :
       ( /\ Len(calls) = 1
         /\ stops # calls[k].newStops
         /\ OwnApplied(calls[k], stops)
         /\ OrderStored(stops, db)
         /\ RevertOf(k) ) =>
         stops' = UndoOwn(calls[k], stops)]_vars

\* C12: the mileage shown for two consecutive stops is the second stop's
\* odometer reading minus the first's when both are present and the second
\* exceeds the first; otherwise the miles to the next stop entered on the
\* first stop when there are any; otherwise null.
C12_MileageFallback ==
  (screen = "mileage" /\ unit.rendered) =>
    LET a == parseOdometer(unit.current.odometer)
        b == parseOdometer(unit.next.odometer)
    IN  unit.mi = IF a # Null /\ b # Null /\ b[1] > a[1]
                   THEN Some(b[1] - a[1]) ELSE unit.manual

\* seconds from 2026-02-01T00:00:00 on the clock of the device
ClockSeconds(dd, h, m, s) == ((dd - 1) * 24 + h) * 3600 + m * 60 + s

Example(dd, h, m, s) ==
  /\ screen = "lateness" /\ unit.converted
  /\ unit.dbStop = [expected_date |-> Some(FebruaryDay(6)), expected_time |-> Null,
                     completed_at |-> Some(Timestamp(dd, h, m, s, Null))]

\* C14 as stated: the stop completed at 2026-02-06T23:59:01 is late, the one
\* completed at 2026-02-06T18:00:00 is not.
C14_LateAt235901 ==
  /\ Example(6, 23, 59, 1) => unit.isLate
  /\ Example(6, 18, 0, 0) => ~unit.isLate

\* C14 as amended: the stop completed at 2026-02-06T23:59:01 is not late (it
\* is before 23:59:59), nor is the one completed at 18:00:00 or at 23:59:59;
\* the one completed at 2026-02-07T00:00:00 is late.
C14_NotLateBeforeEndOfDay ==
  /\ Example(6, 23, 59, 1) => ~unit.isLate
  /\ Example(6, 18, 0, 0) => ~unit.isLate
  /\ Example(6, 23, 59, 59) => ~unit.isLate
  /\ Example(7, 0, 0, 0) => unit.isLate

C14_Witness == Example(6, 23, 59, 1) /\ ~unit.isLate

\* the amount the text stands for, in cents
Cents(text) == parseFloatOr0(text)

\* C15: with the tax breakdown on, the recalculation after GST was edited to
\* 10 with net 80 entered gives total 90; after total was edited to 120 with
\* GST 10 it gives net 110; after GST was edited to 20 with net 80 entered it
\* gives total 100 and leaves the net field as it was.
C15_NetTotalReconciliation ==
  [][(RunEffect /\ unit.showTaxBreakdown) =>
       /\ ( /\ unit.lastEdited = Some("gst")
            /\ unit.netAmount = Dollars(80) /\ unit.gst = Dollars(10) ) =>
            Cents(unit'.total) = 9000
       /\ ( /\ unit.lastEdited = Some("total")
            /\ unit.total = Dollars(120) /\ unit.gst = Dollars(10) ) =>
            Cents(unit'.netAmount) = 11000
       /\ ( /\ unit.lastEdited = Some("gst")
            /\ unit.netAmount = Dollars(80) /\ unit.gst = Dollars(20) ) =>
            Cents(unit'.total) = 10000 /\ unit'.netAmount = unit.netAmount]_vars

\* net 80, then GST 10, then total 120 have been entered and recalculated
C15_Witness ==
  /\ screen = "expense" /\ ~unit.dirty /\ ops = 3
  /\ unit.lastEdited = Some("total")
  /\ unit.total = Dollars(120) /\ unit.gst = Dollars(10)
  /\ unit.netAmount = toFixed2(11000)

\* the recalculation of the form recomputes net
RecomputesNet(form) ==
  /\ form.showTaxBreakdown
  /\ \/ form.lastEdited = Some("total")
     \/ /\ form.lastEdited = Some("gst")
        /\ Filled(form.total) /\ ~Filled(form.netAmount)

\* C20: with the tax breakdown on, when total is the last-edited field, or
\* GST is while total and not net is filled, the recalculation sets net to
\* total minus tax when that is >= 0 and to 0 otherwise; no recalculation
\* sets the net field to a negative value.
C20_NetFlooredAtZero ==
  [][RunEffect =>
       /\ RecomputesNet(unit) =>
            LET diff == Cents(unit.total) - Cents(unit.gst)
            IN  unit'.netAmount = toFixed2(IF diff >= 0 THEN diff ELSE 0)
       /\ Cents(unit'.netAmount) >= 0]_vars

\* GST 10 was entered and then total 5: net was set to 0.00
C20_Witness ==
  /\ screen = "expense" /\ ~unit.dirty
  /\ unit.lastEdited = Some("total") /\ unit.gst = Dollars(10)
  /\ unit.total = Dollars(5)
  /\ unit.netAmount = toFixed2(0)

\* C17: the numbers returned by successive calls of getNextTripNumber are
\* strictly increasing, each the stored sequence value (100 when none is
\* set), and each call leaves the stored value one above what it returned.
C17_AllocatorMonotonic ==
  [][\A session \in Sessions, fetchError, updateError, upsertError \in RequestErrors :
       ( /\ getNextTripNumber(session, fetchError, updateError, upsertError)
         /\ Len(unit'.returned) > Len(unit.returned) ) =>
         LET n == unit'.returned[Len(unit'.returned)]
         IN  /\ n = currentSequence(unit.settings)
             /\ \A i \in 1..Len(unit.returned) : unit.returned[i] < n
             /\ unit'.settings # Null
             /\ unit'.settings[1].trip_number_sequence = Some(n + 1)]_vars

\* C16: a stop is stored in exactly one row: when no other call is in flight
\* and the table holds as many rows as the list holds stops, a successful
\* save of handleSave or handleComplete (of a stop that addStop created and
\* persisted, as of any other) leaves as many rows as stops.
C16_OneRowPerStop ==
  [][\A k \in CallIx :
       ( /\ Len(calls) = 1
         /\ Cardinality(DOMAIN db) = Len(stops)
         /\ handleSaveSaved(k, TRUE) \/ handleCompleteSaved(k, TRUE) ) =>
         Cardinality(DOMAIN db') = Len(stops')]_vars

\* 1-based position of the first pending status of list, 0 when none
FirstPending(list) ==
  IF \E i \in 1..Len(list) : list[i] = "pending"
    THEN CHOOSE i \in 1..Len(list) :
           list[i] = "pending" /\ \A j \in 1..(i - 1) : list[j] # "pending"
    ELSE 0

\* C19: once the fetched rows are converted, isCurrent is set on the first
\* stop in order whose status is pending and on no other stop (on none when
\* all are complete), whatever the combination of statuses.
C19_CurrentIsFirstPending ==
  (screen = "current" /\ Len(unit.mapped) = Len(unit.data)) =>
    \A i \in 1..Len(unit.data) : unit.mapped[i] = (i = FirstPending(unit.data))

\* the lateness rule applied to the stop's current date fields
LatenessRule(stop) ==
  isLate([expected_date |-> stop.expectedDate,
          expected_time |-> stop.expectedTime,
          completed_at  |-> completedAt(stop)], DeviceZone)

\* C18: after any of handleSave, handleComplete and toggleComplete on the
\* trip-detail screen, the isLate shown for the stop equals the lateness
\* rule applied to the stop's current expected and actual date and time.
C18_IsLateFollowsLocalState ==
  (screen = "derived" /\ unit.last # Null) =>
    unit.stop.isLate = LatenessRule(unit.stop)

\* addStop(afterIndex) would put the new stop before an empty_start at
\* position 0, or after a reposition at the last position
BeyondEnds(list, afterIndex) ==
  \/ afterIndex + 1 <= 0 /\ list[1].type = "empty_start"
  \/ afterIndex + 1 >= Len(list) /\ list[Len(list)].type = "reposition"

\* an empty_start at the head of list and a reposition at its end are at
\* the head and the end of after
EndsKept(list, after) ==
  /\ list[1].type = "empty_start" => after[1] = list[1]
  /\ list[Len(list)].type = "reposition" => after[Len(after)] = list[Len(list)]

SearchIssued == screen = "search" /\ Len(unit'.issued) > Len(unit.issued)

C26_ResultsOfLatestQuery ==
  [][\A query \in Queries :
       searchResolved(query, TRUE) =>
         (unit.searchMode /\ unit'.searchResults = Some(unit.searchQuery))]_vars

\* C23: a successful handleSave moves no stop of the local list and changes
\* no stop but the edited one, and the row of the edited stop then holds the
\* stop's position in the local list as its stop_order, whatever else
\* completed while the save was in flight (no other call being in flight
\* when the save completes, no failure being reported, and the stored order
\* being that of the list).
C23_SaveKeepsOrder ==
  [][\A k \in CallIx :
       ( /\ Len(calls) = 1
         /\ alert = ""
         /\ OrderStored(stops, db)
         /\ handleSaveSaved(k, TRUE) ) =>
         LET id == calls[k].updated.id
         IN  /\ Ids(stops') = Ids(stops)
             /\ \A i \in 1..Len(stops) : stops[i].id # id => stops'[i] = stops[i]
             /\ (id \in DOMAIN db' /\ id \in IdSet(stops')) =>
                  db'[id].stop_order = findIndex(stops', id)]_vars

\* the id of the trip with the lowest trip_reference among the trips of
\* candidates (a set of positions of trips), Null when there is none
LowestReference(trips, candidates) ==
  IF candidates = {} THEN Null
  ELSE Some(trips[CHOOSE k \in candidates :
                    \A j \in candidates :
                      trips[k].trip_reference <= trips[j].trip_reference].id)

\* the trips with at least one stop that is not complete
WithOpenStop(form) ==
  {k \in 1..Len(form.trips) :
     \E i \in 1..Len(form.statuses[form.trips[k].id]) :
       form.statuses[form.trips[k].id][i] # "complete"}

\* the trips with no stop, or with at least one stop that is not complete
WithoutStopsOrOpen(form) ==
  {k \in 1..Len(form.trips) : Len(form.statuses[form.trips[k].id]) = 0}
    \cup WithOpenStop(form)

C25_OverlappingCallsDistinct ==
  screen = "overlap" =>
    /\ \A i, j \in 1..Len(unit.returned) :
         i # j => unit.returned[i] # unit.returned[j]
    /\ (unit.inFlight = <<>> /\ Len(unit.returned) = ops /\ ops > 0) =>
         \A i \in 1..Len(unit.returned) :
           unit.returned[i] < unit.settings[1].trip_number_sequence[1]

\* C27: for stops as fetchTripStops loaded them, whatever their odometer
\* readings, the value totalMileage adds for a leg is >= 0.
C27_LegMileageNotNegative ==
  (screen = "mileage" /\ unit.rendered /\ ops = 0) => summedMileage(unit.mi) >= 0

\* C28: in every local state reached through toggleComplete,
\* handleComplete, handleSave, moveStop and addStop, no stop is both
\* isCompleted and isCurrent and at most one stop is isCurrent.
C28_CurrentNotCompleted ==
  screen = "flags" =>
    /\ \A i \in 1..Len(unit) : ~(unit[i].isCompleted /\ unit[i].isCurrent)
    /\ \A i, j \in 1..Len(unit) : (unit[i].isCurrent /\ unit[j].isCurrent) => i = j

\* C29: the recalculation terminates: whenever an edit has left the effect
\* to run, a state is reached in which a run of the effect changed no field
\* and none is left to run.
C29_EffectReachesFixedPoint ==
  (screen = "expense" /\ unit.dirty) ~> (screen = "expense" /\ ~unit.dirty)

\* GST 5 was entered with total filled and net empty: the effect ran three
\* times (it set net, then total, then changed nothing) and has come to rest
C29_Witness ==
  /\ screen = "expense" /\ ~unit.dirty
  /\ unit.lastEdited = Some("gst") /\ unit.gst = Dollars(5)
  /\ unit.written = {"net", "total"}
  /\ unit.netAmount = toFixed2(0) /\ unit.total = toFixed2(500)

\* C30: the recalculation after an edit never gives the field edited last
\* another value, and gives at most one of the other two another value.
C30_LastEditedKept ==
  (screen = "expense" /\ unit.showTaxBreakdown /\ unit.lastEdited # Null) =>
    /\ unit.lastEdited[1] \notin unit.written
    /\ Cardinality(unit.written) <= 1

====
